---- MODULE Spec2Model ----
(***************************************************************************)
(* Model of videos-midjourney.py: the JSON record store (videos.json), the *)
(* DownloadManager coordinator, the /dailyvids ingestion handler, the      *)
(* background batch runner and the two download transports.                *)
(*                                                                         *)
(* Threads: Flask serves each request on its own thread (threaded=True),   *)
(* the runner is a daemon thread started by a handler.  Every step below   *)
(* is one access to a shared object (the coordinator under its lock, the   *)
(* store file, the download directory); purely local computation is folded *)
(* into the step that precedes it.                                         *)
(***************************************************************************)
EXTENDS Integers, Sequences, FiniteSets, TLC

\* ------------------------------------------------------------------ bounds
NumNames == 2          \* distinct job ids the notifier may send
MaxLen == 2            \* longest "videos" list of one ingestion call
MaxRequests == 2       \* ingestion calls served in one behaviour
NumHandlers == 2       \* request threads that may be in flight together
MaxInput == 3          \* longest list given to a sequential save_new_videos call

\* ------------------------------------------------------- program constants
min_size_bytes == 8192     \* verify_temp_file_is_ok default threshold
max_retries == 2           \* download_with_requests default

\* ------------------------------------------------------------- data values
NameOf == <<"a", "b", "c", "d">>
Names == {NameOf[i] : i \in 1..NumNames}
NoName == ""               \* videoName missing / falsy: v.get("videoName") is None or ""
NoUrl == ""                \* the entry carries no "videoUrl" key
Urls == {"u1", "u2"}

\* One element of the request's "videos" list.  "downloaded" is "unset" when
\* the key is absent from the JSON object, else the value it carries.
Entry(n, u, d) == [videoName |-> n, videoUrl |-> u, downloaded |-> d]

\* A stored record of videos.json.
Record(n, u, d) == [videoName |-> n, videoUrl |-> u, downloaded |-> d]

\* Sequences over S of length 0..n
RECURSIVE SeqsUpTo(_, _)
SeqsUpTo(S, n) ==
  IF n = 0 THEN {<<>>}
  ELSE LET shorter == SeqsUpTo(S, n - 1)
       IN  shorter \cup {Append(s, x) : s \in {t \in shorter : Len(t) = n - 1}, x \in S}

SeqNames(videos) == {videos[i].videoName : i \in 1..Len(videos)}

RECURSIVE SelectRecs(_, _)
SelectRecs(videos, keep) ==
  IF videos = <<>> THEN <<>>
  ELSE (IF keep[Head(videos).videoName] THEN <<Head(videos)>> ELSE <<>>)
       \o SelectRecs(Tail(videos), keep)

\* ---------------------------------------------------------- the store file
\* The bytes json.dump(..., indent=2) writes for {"videos": videos}, for ids of
\* one character and urls of two: 18 bytes for the empty list, else 20 bytes
\* of frame plus, per record, 87 bytes less 1 for "true" instead of "false"
\* and less 24 when the record has no "videoUrl" line.
RecBytes(rec) ==
  87 - (IF rec.downloaded THEN 1 ELSE 0) - (IF rec.videoUrl = NoUrl THEN 24 ELSE 0)

RECURSIVE SumBytes(_)
SumBytes(videos) ==
  IF videos = <<>> THEN 0 ELSE RecBytes(Head(videos)) + SumBytes(Tail(videos))

JsonBytes(videos) == IF videos = <<>> THEN 18 ELSE 20 + SumBytes(videos)

\* videos.json: kind "absent" (no file), "json" (a complete document holding
\* `videos`), or "garbled" (empty, or a document followed by the tail of a
\* longer one: json.load raises JSONDecodeError).  bytes is the file's length.
NoFile == [kind |-> "absent", videos |-> <<>>, bytes |-> 0]

\* load_videos(): the list stored, [] when the file is missing or undecodable.
load_videos(f) == IF f.kind = "json" THEN f.videos ELSE <<>>

\* What a call of load_videos() does with any content of the file, including
\* content this program never writes: kind "not_utf8" (bytes that do not decode
\* as UTF-8: f.read() inside json.load raises UnicodeDecodeError) and kind
\* "not_object" (a complete JSON document whose top level is no object, such
\* as [] or null: data.get raises AttributeError).  Only json.JSONDecodeError
\* is caught (line 186).  [raised, ret]
Raised(f) ==
  IF f.kind = "not_utf8" THEN "UnicodeDecodeError"
  ELSE IF f.kind = "not_object" THEN "AttributeError"
  ELSE "none"

load_videos_call(f) ==
  [raised |-> Raised(f), ret |-> IF Raised(f) = "none" THEN load_videos(f) ELSE <<>>]

\* save_videos, first half: open(VIDEOS_FILE, "w") creates or truncates.
open_w(f) == [kind |-> "garbled", videos |-> <<>>, bytes |-> 0]

\* save_videos, second half: json.dump and close write the document at offset
\* 0 of this writer's descriptor.  Bytes another writer put behind that length
\* since this writer's open stay in the file.
dump_close(f, videos) ==
  IF f.bytes <= JsonBytes(videos)
  THEN [kind |-> "json", videos |-> videos, bytes |-> JsonBytes(videos)]
  ELSE [kind |-> "garbled", videos |-> <<>>, bytes |-> f.bytes]

\* ------------------------------------------------------- save_new_videos
\* Mutant of unique_incoming: a name repeated within the call is kept again.
RECURSIVE unique_incoming_repeats(_, _)
unique_incoming_repeats(new_videos, seen) ==
  IF new_videos = <<>> THEN <<>>
  ELSE LET v == Head(new_videos)
       IN  IF v.videoName = NoName
           THEN unique_incoming_repeats(Tail(new_videos), seen)
           ELSE <<Record(v.videoName, v.videoUrl,
                         IF v.downloaded = "unset" THEN FALSE ELSE v.downloaded = "true")>>
                \o unique_incoming_repeats(Tail(new_videos), seen)

\* unique_incoming: first occurrence of every non-empty name, in input order,
\* with setdefault("downloaded", False).
RECURSIVE unique_incoming(_, _)
unique_incoming(new_videos, seen) ==
  IF new_videos = <<>> THEN <<>>
  ELSE LET v == Head(new_videos)
           name == v.videoName
       IN  IF name = NoName \/ name \in seen
           THEN unique_incoming(Tail(new_videos), seen)
           ELSE <<Record(name, v.videoUrl,
                         IF v.downloaded = "unset" THEN FALSE ELSE v.downloaded = "true")>>
                \o unique_incoming(Tail(new_videos), seen \cup {name})

\* Mutant of to_add_of: the names already stored are not filtered out.
to_add_unfiltered(existing, new_videos) == unique_incoming(new_videos, {})

\* to_add: the unique incoming records whose name is not in the loaded store.
to_add_of(existing, new_videos) ==
  LET existing_names == SeqNames(existing) \ {NoName}
      incoming == unique_incoming(new_videos, {})
  IN  SelectRecs(incoming, [n \in SeqNames(incoming) |-> n \notin existing_names])

\* save_new_videos run without interruption: [ret, file]
save_new_videos(f, new_videos) ==
  LET existing == load_videos(f)
      to_add == to_add_of(existing, new_videos)
  IN  IF to_add = <<>>
      THEN [ret |-> 0, file |-> f]
      ELSE [ret |-> Len(to_add), file |-> dump_close(open_w(f), existing \o to_add)]

\* save_new_videos called on any content: the exception of load_videos() (line
\* 197) leaves the function before anything is written.  [raised, ret, file]
save_new_videos_call(f, new_videos) ==
  IF Raised(f) # "none"
  THEN [raised |-> Raised(f), ret |-> 0, file |-> f]
  ELSE [raised |-> "none"] @@ save_new_videos(f, new_videos)

\* ------------------------------------------------------- DownloadManager
\* start_time is abstracted to "set"/"None"; download_thread holds the id of
\* the thread object last assigned, 0 for None.
DownloadManager_init ==
  [is_downloading |-> FALSE, pending_count |-> 0, completed_count |-> 0,
   total_count |-> 0, batch_number |-> 0, download_thread |-> 0,
   start_time |-> "None"]

start_batch(dm, pending_count) ==
  [dm EXCEPT !.batch_number = @ + 1, !.pending_count = pending_count,
             !.total_count = pending_count, !.completed_count = 0]

\* Mutant of start_download: the is_downloading test is dropped.
start_download_unguarded(dm) ==
  [ret |-> TRUE,
   dm |-> [dm EXCEPT !.is_downloading = TRUE, !.batch_number = 0, !.start_time = "set"]]

\* Mutant of start_download: a refused call resets batch_number all the same.
start_download_refused_resets(dm) ==
  IF dm.is_downloading
  THEN [ret |-> FALSE, dm |-> [dm EXCEPT !.batch_number = 0]]
  ELSE [ret |-> TRUE,
        dm |-> [dm EXCEPT !.is_downloading = TRUE, !.batch_number = 0,
                          !.start_time = "set"]]

\* start_download: [ret, dm]
start_download(dm) ==
  IF dm.is_downloading
  THEN [ret |-> FALSE, dm |-> dm]
  ELSE [ret |-> TRUE,
        dm |-> [dm EXCEPT !.is_downloading = TRUE, !.batch_number = 0,
                          !.start_time = "set"]]

update_progress(dm) ==
  [dm EXCEPT !.completed_count = @ + 1, !.pending_count = @ - 1]

finish_download(dm) ==
  [dm EXCEPT !.is_downloading = FALSE, !.pending_count = 0,
             !.download_thread = 0, !.start_time = "None"]

get_status(dm) ==
  IF ~dm.is_downloading
  THEN [status |-> "idle", batch |-> 0, total |-> 0, completed |-> 0, pending |-> 0]
  ELSE [status |-> "downloading", batch |-> dm.batch_number, total |-> dm.total_count,
        completed |-> dm.completed_count, pending |-> dm.pending_count]

\* ------------------------------------------------------- download helpers
Absent == -1               \* no file at the path
Sizes == {0, min_size_bytes, min_size_bytes + 1}

\* Mutant of verify_temp_file_is_ok: "<" in place of "<=".
verify_lt(size) == size # Absent /\ ~(size < min_size_bytes)

\* Mutant of verify_temp_file_is_ok: the threshold is one byte higher.
verify_le_next(size) == size # Absent /\ ~(size <= min_size_bytes + 1)

\* verify_temp_file_is_ok(temp_path): FileNotFoundError -> False
verify_temp_file_is_ok(size) == size # Absent /\ ~(size <= min_size_bytes)

\* mark_as_downloaded: [ret, videos], the first record of that name set true
RECURSIVE mark_videos(_, _)
mark_videos(videos, video_name) ==
  IF videos = <<>> THEN <<>>
  ELSE IF Head(videos).videoName = video_name
       THEN <<[Head(videos) EXCEPT !.downloaded = TRUE]>> \o Tail(videos)
       ELSE <<Head(videos)>> \o mark_videos(Tail(videos), video_name)

\* Mutant of mark_as_downloaded: the record is found, its flag is not set.
mark_not_set(videos, video_name) ==
  [ret |-> video_name \in SeqNames(videos), videos |-> videos]

mark_as_downloaded(videos, video_name) ==
  [ret |-> video_name \in SeqNames(videos), videos |-> mark_videos(videos, video_name)]

\* pending = [v for v in videos if not v.get('downloaded', False)]
RECURSIVE pending_of(_)
pending_of(videos) ==
  IF videos = <<>> THEN <<>>
  ELSE (IF Head(videos).downloaded THEN <<>> ELSE <<Head(videos)>>)
       \o pending_of(Tail(videos))


\* ------------------------------------------------------------------- state
Handlers == 1..NumHandlers
Runners == 1..MaxRequests      \* a call starts at most one runner thread

VARIABLES
  file,               \* videos.json
  finalFile,          \* midjourney-download/<name>.mp4: size or Absent
  tempFile,           \* midjourney-download/.<name>.mp4.part: size or Absent
  download_manager,   \* the DownloadManager singleton
  handler,            \* the /dailyvids request threads
  runner,             \* the download_pending_videos_background threads
  requests,           \* ingestion calls received so far
  everTrue,           \* history: names saved with downloaded = true
  everSaved,          \* history: names persisted by save_new_videos
  hseen,              \* history: per call, names scanned as pending since its save
  owed,               \* history: names queued by a busy call, not yet scanned
  successCount,       \* history: successful fetches per name (capped at 2)
  ingest              \* the sequential calls of SpecIngest and SpecLoad,
                      \* the /status request thread of SpecStatus

vars == <<file, finalFile, tempFile, download_manager, handler, runner, requests,
          everTrue, everSaved, hseen, owed, successCount, ingest>>

HandlerIdle ==
  [pc |-> "idle", tosave |-> <<>>, added_count |-> 0, thread |-> 0, dup |-> FALSE]

RunnerUnborn ==
  [pc |-> "unborn", admitted |-> FALSE, pending |-> <<>>, idx |-> 0,
   batch_success |-> 0, batch_fail |-> 0, total_success |-> 0, total_fail |-> 0,
   attempt |-> 0, rc |-> "none", tosave |-> <<>>, finishes |-> 0, exit |-> "none",
   true0 |-> 0,          \* history: downloaded=true records seen by the last scan
   curl_runs |-> 0,      \* history: download_with_curl calls of the fetch under way
   req_runs |-> 0]       \* history: requests attempts of the fetch under way

NoIngest ==
  [pc |-> "none", input |-> <<>>, before |-> <<>>, after |-> <<>>, ret |-> 0, again |-> 0,
   raised |-> "none", kind |-> "none"]

Init ==
  /\ file = NoFile
  /\ finalFile = [n \in Names |-> Absent]
  /\ tempFile = [n \in Names |-> Absent]
  /\ download_manager = DownloadManager_init
  /\ handler = [h \in Handlers |-> HandlerIdle]
  /\ runner = [r \in Runners |-> RunnerUnborn]
  /\ requests = 0
  /\ everTrue = {}
  /\ everSaved = {}
  /\ hseen = [h \in Handlers |-> {}]
  /\ owed = {}
  /\ successCount = [n \in Names |-> 0]
  /\ ingest = NoIngest

\* The payloads the notifier may post: lists of at most MaxLen entries.
\* Entries of the documented shape {videoName, videoUrl}, the name possibly
\* missing:
Entries == {Entry(n, "u1", "unset") : n \in Names \cup {NoName}}
Payloads == SeqsUpTo(Entries, MaxLen)

\* Any JSON objects: the url key may be missing too, a "downloaded" key present.
AnyEntries ==
  {Entry(n, u, d) : n \in Names \cup {NoName}, u \in {"u1", NoUrl}, d \in {"unset", "true"}}
AnyPayloads == SeqsUpTo(AnyEntries, MaxLen)

\* Names a finished write leaves in the file with downloaded = true.
TrueNames(f) ==
  {load_videos(f)[i].videoName : i \in {j \in 1..Len(load_videos(f)) : load_videos(f)[j].downloaded}}

\* The names the call's save_new_videos appended (the tail of what it saves).
AddedNames(hr) ==
  {hr.tosave[i].videoName : i \in (Len(hr.tosave) - hr.added_count + 1)..Len(hr.tosave)}

\* ------------------------------------------------------------ /dailyvids
\* Lines 484-489 and 196-213: the request arrives, save_new_videos loads the
\* store and computes to_add.
Dailyvids(h, new_videos) ==
  /\ handler[h].pc = "idle"
  /\ \A g \in Handlers : g < h => handler[g].pc # "idle"
  /\ requests < MaxRequests
  /\ requests' = requests + 1
  /\ LET existing == load_videos(file)
         to_add == IF new_videos = <<>> THEN <<>> ELSE to_add_of(existing, new_videos)
         named == {i \in 1..Len(new_videos) : new_videos[i].videoName # NoName}
         dup == Len(to_add) < Cardinality(named)    \* history: an id was a duplicate
     IN  handler' = [handler EXCEPT ![h] =
           IF to_add = <<>>
           THEN [HandlerIdle EXCEPT !.pc = "status", !.dup = dup]
           ELSE [HandlerIdle EXCEPT !.pc = "save_open", !.tosave = existing \o to_add,
                                    !.added_count = Len(to_add), !.dup = dup]]
  /\ UNCHANGED <<file, finalFile, tempFile, download_manager, runner,
                 everTrue, everSaved, hseen, owed, successCount, ingest>>

\* Line 215 / 192: save_videos(existing + to_add) opens the file for writing.
SaveNewOpen(h) ==
  /\ handler[h].pc = "save_open"
  /\ file' = open_w(file)
  /\ handler' = [handler EXCEPT ![h].pc = "save_write"]
  /\ UNCHANGED <<finalFile, tempFile, download_manager, runner, requests,
                 everTrue, everSaved, hseen, owed, successCount, ingest>>

\* Line 193, 216-217: the document is written; save_new_videos returns len(to_add).
SaveNewWrite(h) ==
  /\ handler[h].pc = "save_write"
  /\ file' = dump_close(file, handler[h].tosave)
  /\ handler' = [handler EXCEPT ![h].pc = "status"]
  /\ everTrue' = everTrue \cup TrueNames(file')
  /\ everSaved' = IF file'.kind = "json" THEN everSaved \cup AddedNames(handler[h])
                  ELSE everSaved
  /\ hseen' = [hseen EXCEPT ![h] = {}]
  /\ UNCHANGED <<finalFile, tempFile, download_manager, runner, requests,
                 owed, successCount, ingest>>

\* Lines 492-502: get_status(); "downloading" answers 202 busy.
\* Otherwise the handler goes on to count the pending records.
CheckStatus(h) ==
  /\ handler[h].pc = "status"
  /\ IF get_status(download_manager).status = "downloading"
     THEN /\ handler' = [handler EXCEPT ![h] = HandlerIdle]
          /\ owed' = owed \cup (AddedNames(handler[h]) \ hseen[h])
     ELSE /\ handler' = [handler EXCEPT ![h].pc = "count"]
          /\ owed' = owed
  /\ hseen' = [hseen EXCEPT ![h] = {}]
  /\ UNCHANGED <<file, finalFile, tempFile, download_manager, runner, requests,
                 everTrue, everSaved, successCount, ingest>>

\* Lines 505-525: load the store, count pending; with pending work start a
\* daemon thread running download_pending_videos_background.
FreeRunner == CHOOSE r \in Runners : runner[r].pc = "unborn" /\
                                     \A q \in Runners : q < r => runner[q].pc # "unborn"

CountAndSpawn(h) ==
  /\ handler[h].pc = "count"
  /\ LET pending_count == Len(pending_of(load_videos(file)))
     IN  IF pending_count > 0
         THEN /\ runner' = [runner EXCEPT ![FreeRunner].pc = "start"]
              /\ handler' = [handler EXCEPT ![h].pc = "set_thread", ![h].thread = FreeRunner]
         ELSE /\ runner' = runner
              /\ handler' = [handler EXCEPT ![h] = HandlerIdle]
  /\ UNCHANGED <<file, finalFile, tempFile, download_manager, requests,
                 everTrue, everSaved, hseen, owed, successCount, ingest>>

\* Line 512: download_manager.download_thread = thread (no lock taken).
SetThread(h) ==
  /\ handler[h].pc = "set_thread"
  /\ download_manager' = [download_manager EXCEPT !.download_thread = handler[h].thread]
  /\ handler' = [handler EXCEPT ![h] = HandlerIdle]
  /\ UNCHANGED <<file, finalFile, tempFile, runner, requests,
                 everTrue, everSaved, hseen, owed, successCount, ingest>>

\* -------------------------------------- download_pending_videos_background
Cur(r) == runner[r].pending[runner[r].idx]          \* the video of this iteration

HandlerUnch == UNCHANGED <<handler, requests>>
HistUnch == UNCHANGED <<everTrue, everSaved, hseen, owed, successCount, ingest>>

\* Mutant of ItemPc: the KeyError ends the thread without the finally block.
ItemPc_uncaught(pending, idx) ==
  IF pending[idx].videoUrl = NoUrl THEN "stopped" ELSE "curl"

\* Lines 409-410: video['videoUrl'] raises KeyError for a record without the
\* key; the except clause of line 460 catches it and the finally block runs.
ItemPc(pending, idx) == IF pending[idx].videoUrl = NoUrl THEN "finally" ELSE "curl"

\* history: why the loop was left ("empty", "abort", "error", "sysexit")
ExitAt(pending, idx) == IF pending[idx].videoUrl = NoUrl THEN "error" ELSE "none"

\* Lines 436-458: the end of one iteration.  ok tells whether the fetch
\* succeeded; after the last video the batch totals are added up and the run
\* stops when the whole batch failed.
Advance(rr, ok) ==
  LET bs == rr.batch_success + (IF ok THEN 1 ELSE 0)
      bf == rr.batch_fail + (IF ok THEN 0 ELSE 1)
      nx == [rr EXCEPT !.batch_success = bs, !.batch_fail = bf, !.attempt = 0,
                       !.rc = "none", !.tosave = <<>>, !.curl_runs = 0, !.req_runs = 0]
  IN  IF rr.idx < Len(rr.pending)
      THEN [nx EXCEPT !.idx = rr.idx + 1, !.pc = ItemPc(rr.pending, rr.idx + 1),
                      !.exit = ExitAt(rr.pending, rr.idx + 1)]
      ELSE [nx EXCEPT !.idx = 0, !.pending = <<>>, !.true0 = 0,
                      !.batch_success = 0, !.batch_fail = 0,
                      !.total_success = @ + bs, !.total_fail = @ + bf,
                      !.pc = IF bs = 0 /\ bf > 0 THEN "finally" ELSE "scan",
                      !.exit = IF bs = 0 /\ bf > 0 THEN "abort" ELSE "none"]

\* Lines 381-383: start_download(); a refused thread logs BLOCKED and returns.
StartRun(r) ==
  /\ runner[r].pc = "start"
  /\ LET s == start_download(download_manager)
     IN  /\ download_manager' = s.dm
         /\ runner' = [runner EXCEPT ![r].pc = IF s.ret THEN "mkdir" ELSE "stopped",
                                     ![r].admitted = s.ret]
  /\ UNCHANGED <<file, finalFile, tempFile>>
  /\ HandlerUnch /\ HistUnch

\* Line 386: create_directory(DOWNLOADS_DIR); on an OS error it calls
\* sys.exit(1), whose SystemExit unwinds through the finally block.
MakeDir(r) ==
  /\ runner[r].pc = "mkdir"
  /\ \E made \in BOOLEAN :
       runner' = [runner EXCEPT ![r].pc = IF made THEN "scan" ELSE "finally",
                                   ![r].exit = IF made THEN "none" ELSE "sysexit"]
  /\ UNCHANGED <<file, finalFile, tempFile, download_manager>>
  /\ HandlerUnch /\ HistUnch

\* Lines 390-395: reload the store and list the pending videos.
Scan(r) ==
  /\ runner[r].pc = "scan"
  /\ LET pending == pending_of(load_videos(file))
     IN  /\ runner' = [runner EXCEPT ![r].pending = pending,
                         ![r].true0 = Len(load_videos(file)) - Len(pending),
                         ![r].pc = IF pending = <<>> THEN "finally" ELSE "start_batch",
                         ![r].exit = IF pending = <<>> THEN "empty" ELSE "none"]
         /\ hseen' = [h \in Handlers |-> hseen[h] \cup SeqNames(pending)]
         /\ owed' = owed \ SeqNames(pending)
  /\ UNCHANGED <<file, finalFile, tempFile, download_manager, everTrue, everSaved,
                 successCount, ingest>>
  /\ HandlerUnch

\* Line 398: start_batch(len(pending)); the for loop reaches its first video.
StartBatch(r) ==
  /\ runner[r].pc = "start_batch"
  /\ download_manager' = start_batch(download_manager, Len(runner[r].pending))
  /\ runner' = [runner EXCEPT ![r].idx = 1, ![r].batch_success = 0, ![r].batch_fail = 0,
                              ![r].pc = ItemPc(runner[r].pending, 1),
                              ![r].exit = ExitAt(runner[r].pending, 1)]
  /\ UNCHANGED <<file, finalFile, tempFile>>
  /\ HandlerUnch /\ HistUnch

\* Lines 296-316: curl writes to the temporary path and exits with a return
\* code, or subprocess.run raises (no curl): the except clause returns False.
CurlRun(r) ==
  /\ runner[r].pc = "curl"
  /\ \/ /\ tempFile' = tempFile
        /\ runner' = [runner EXCEPT ![r].pc = "requests", ![r].attempt = 1,
                                    ![r].curl_runs = @ + 1]
     \/ \E size \in Sizes \cup {tempFile[Cur(r).videoName]}, rc \in {"ok", "failed"} :
          /\ tempFile' = [tempFile EXCEPT ![Cur(r).videoName] = size]
          /\ runner' = [runner EXCEPT ![r].pc = "curl_check", ![r].rc = rc,
                                      ![r].curl_runs = @ + 1]
  /\ UNCHANGED <<file, finalFile, download_manager>>
  /\ HandlerUnch /\ HistUnch

\* atomic_move(src, dst): os.replace of the temporary file onto the final path.
atomic_move(files, name) ==
  [final |-> [files.final EXCEPT ![name] = files.temp[name]],
   temp |-> [files.temp EXCEPT ![name] = Absent]]

\* Lines 272-280 and 323-330: what both transports do with the temporary
\* file once it is written: verify, then move it or remove it.
verify_and_commit(files, name) ==
  IF verify_temp_file_is_ok(files.temp[name])
  THEN [ok |-> TRUE] @@ atomic_move(files, name)
  ELSE [ok |-> FALSE, final |-> files.final,
        temp |-> [files.temp EXCEPT ![name] = Absent]]

Files == [final |-> finalFile, temp |-> tempFile]

CountSuccess(name) ==
  [successCount EXCEPT ![name] = IF @ < 2 THEN @ + 1 ELSE @]

\* Lines 317-330: a non-zero return code removes the temporary file; else the
\* file is verified and moved, or removed.  Failure falls back to requests.
CurlCheck(r) ==
  /\ runner[r].pc = "curl_check"
  /\ LET name == Cur(r).videoName
         res == IF runner[r].rc = "failed"
                THEN [ok |-> FALSE, final |-> finalFile,
                      temp |-> [tempFile EXCEPT ![name] = Absent]]
                ELSE verify_and_commit(Files, name)
     IN  /\ finalFile' = res.final
         /\ tempFile' = res.temp
         /\ successCount' = IF res.ok THEN CountSuccess(name) ELSE successCount
         /\ runner' = [runner EXCEPT ![r].rc = "none",
                         ![r].pc = IF res.ok THEN "reload" ELSE "requests",
                         ![r].attempt = IF res.ok THEN 0 ELSE 1,
                         ![r].curl_runs = IF res.ok THEN 0 ELSE @]
  /\ UNCHANGED <<file, download_manager, everTrue, everSaved, hseen, owed, ingest>>
  /\ HandlerUnch

\* Mutant of retry_again: one attempt more than max_retries.
retry_again_le(attempt) == attempt <= max_retries

\* Line 251: for attempt in range(1, max_retries + 1) has another value.
retry_again(attempt) == attempt < max_retries

\* Lines 251-270: one requests attempt streams the body into the temporary
\* file, or raises (timeout, HTTP error) before or while writing it.
RequestsGet(r) ==
  /\ runner[r].pc = "requests"
  /\ \E size \in Sizes \cup {tempFile[Cur(r).videoName]}, rc \in {"ok", "failed"} :
       /\ tempFile' = [tempFile EXCEPT ![Cur(r).videoName] = size]
       /\ runner' = [runner EXCEPT ![r].pc = "requests_check", ![r].rc = rc,
                                   ![r].req_runs = @ + 1]
  /\ UNCHANGED <<file, finalFile, download_manager>>
  /\ HandlerUnch /\ HistUnch

\* Lines 272-291: verify and move, or clean up; another attempt while
\* attempt < max_retries, else download_with_requests returns False and the
\* video counts as failed (lines 436-438).
RequestsCheck(r) ==
  /\ runner[r].pc = "requests_check"
  /\ LET name == Cur(r).videoName
         res == IF runner[r].rc = "failed"
                THEN [ok |-> FALSE, final |-> finalFile,
                      temp |-> [tempFile EXCEPT ![name] = Absent]]
                ELSE verify_and_commit(Files, name)
     IN  /\ finalFile' = res.final
         /\ tempFile' = res.temp
         /\ successCount' = IF res.ok THEN CountSuccess(name) ELSE successCount
         /\ runner' = [runner EXCEPT ![r] =
              IF res.ok THEN [@ EXCEPT !.rc = "none", !.attempt = 0, !.pc = "reload",
                                       !.curl_runs = 0, !.req_runs = 0]
              ELSE IF retry_again(@.attempt)
                   THEN [@ EXCEPT !.rc = "none", !.attempt = @ + 1, !.pc = "requests"]
                   ELSE Advance(@, FALSE)]
  /\ UNCHANGED <<file, download_manager, everTrue, everSaved, hseen, owed, ingest>>
  /\ HandlerUnch

\* Lines 427-435: after a successful fetch reload the store and mark the
\* record; a record that is not found is only logged.
Reload(r) ==
  /\ runner[r].pc = "reload"
  /\ LET m == mark_as_downloaded(load_videos(file), Cur(r).videoName)
     IN  runner' = [runner EXCEPT ![r] =
           IF m.ret THEN [@ EXCEPT !.tosave = m.videos, !.pc = "mark_open"]
           ELSE Advance(@, TRUE)]
  /\ UNCHANGED <<file, finalFile, tempFile, download_manager>>
  /\ HandlerUnch /\ HistUnch

\* Line 430 / 192: save_videos(videos) opens the file for writing.
MarkOpen(r) ==
  /\ runner[r].pc = "mark_open"
  /\ file' = open_w(file)
  /\ runner' = [runner EXCEPT ![r].pc = "mark_write"]
  /\ UNCHANGED <<finalFile, tempFile, download_manager>>
  /\ HandlerUnch /\ HistUnch

\* Line 193: the marked list is written.
MarkWrite(r) ==
  /\ runner[r].pc = "mark_write"
  /\ file' = dump_close(file, runner[r].tosave)
  /\ runner' = [runner EXCEPT ![r].pc = "progress", ![r].tosave = <<>>]
  /\ everTrue' = everTrue \cup TrueNames(file')
  /\ UNCHANGED <<finalFile, tempFile, download_manager, everSaved, hseen, owed,
                 successCount, ingest>>
  /\ HandlerUnch

\* Lines 432, 435: update_progress(), batch_success += 1.
Progress(r) ==
  /\ runner[r].pc = "progress"
  /\ download_manager' = update_progress(download_manager)
  /\ runner' = [runner EXCEPT ![r] = Advance(@, TRUE)]
  /\ UNCHANGED <<file, finalFile, tempFile>>
  /\ HandlerUnch /\ HistUnch

\* Lines 462-475: the finally block calls finish_download() and reports.
Finally(r) ==
  /\ runner[r].pc = "finally"
  /\ download_manager' = finish_download(download_manager)
  /\ runner' = [runner EXCEPT ![r].pc = "stopped", ![r].finishes = @ + 1,
                              ![r].pending = <<>>, ![r].idx = 0, ![r].true0 = 0,
                              ![r].batch_success = 0, ![r].batch_fail = 0]
  /\ UNCHANGED <<file, finalFile, tempFile>>
  /\ HandlerUnch /\ HistUnch

\* ---------------------------------------------------------- specification
HandlerSteps ==
  \/ \E h \in Handlers : SaveNewOpen(h)
  \/ \E h \in Handlers : SaveNewWrite(h)
  \/ \E h \in Handlers : CheckStatus(h)
  \/ \E h \in Handlers : CountAndSpawn(h)
  \/ \E h \in Handlers : SetThread(h)

RunnerSteps ==
  \/ \E r \in Runners : StartRun(r)
  \/ \E r \in Runners : MakeDir(r)
  \/ \E r \in Runners : Scan(r)
  \/ \E r \in Runners : StartBatch(r)
  \/ \E r \in Runners : CurlRun(r)
  \/ \E r \in Runners : CurlCheck(r)
  \/ \E r \in Runners : RequestsGet(r)
  \/ \E r \in Runners : RequestsCheck(r)
  \/ \E r \in Runners : Reload(r)
  \/ \E r \in Runners : MarkOpen(r)
  \/ \E r \in Runners : MarkWrite(r)
  \/ \E r \in Runners : Progress(r)
  \/ \E r \in Runners : Finally(r)

\* Concurrent ingestion calls carrying entries of the documented shape.
Next ==
  \/ \E h \in Handlers, p \in Payloads : Dailyvids(h, p)
  \/ HandlerSteps
  \/ RunnerSteps

Spec == Init /\ [][Next]_vars

\* One ingestion call at a time (the runner threads still run beside it),
\* carrying any JSON objects.
NextAnyPayload ==
  \/ \E p \in AnyPayloads : Dailyvids(1, p)
  \/ HandlerSteps
  \/ RunnerSteps

SpecAnyPayload == Init /\ [][NextAnyPayload]_vars

\* Sequential ingestion: save_new_videos called twice with the same list on a
\* store no other thread touches.  The store starts absent or holding records
\* with distinct names; the list mixes names, urls and entries without a name.
RECURSIVE Distinct(_)
Distinct(videos) ==
  videos = <<>> \/ (/\ Head(videos).videoName \notin SeqNames(Tail(videos))
                    /\ Distinct(Tail(videos)))

IngestStores ==
  {v \in SeqsUpTo({Record(n, "u1", d) : n \in Names, d \in BOOLEAN}, NumNames) : Distinct(v)}
IngestFiles ==
  {NoFile} \cup {[kind |-> "json", videos |-> v, bytes |-> JsonBytes(v)] : v \in IngestStores}
IngestInputs ==
  SeqsUpTo({Entry(n, u, "unset") : n \in Names \cup {NoName}, u \in Urls}, MaxInput)

InitIngest ==
  /\ file \in IngestFiles
  /\ ingest \in {[NoIngest EXCEPT !.pc = "ready", !.input = p] : p \in IngestInputs}
  /\ finalFile = [n \in Names |-> Absent]
  /\ tempFile = [n \in Names |-> Absent]
  /\ download_manager = DownloadManager_init
  /\ handler = [h \in Handlers |-> HandlerIdle]
  /\ runner = [r \in Runners |-> RunnerUnborn]
  /\ requests = 0
  /\ everTrue = {}
  /\ everSaved = {}
  /\ hseen = [h \in Handlers |-> {}]
  /\ owed = {}
  /\ successCount = [n \in Names |-> 0]

IngestUnch ==
  UNCHANGED <<finalFile, tempFile, download_manager, handler, runner, requests,
              everTrue, everSaved, hseen, owed, successCount>>

FirstCall ==
  /\ ingest.pc = "ready"
  /\ LET res == save_new_videos(file, ingest.input)
     IN  /\ file' = res.file
         /\ ingest' = [ingest EXCEPT !.pc = "once", !.before = load_videos(file),
                                     !.after = load_videos(res.file), !.ret = res.ret]
  /\ IngestUnch

SecondCall ==
  /\ ingest.pc = "once"
  /\ LET res == save_new_videos(file, ingest.input)
     IN  /\ file' = res.file
         /\ ingest' = [ingest EXCEPT !.pc = "twice", !.again = res.ret]
  /\ IngestUnch

NextIngest == FirstCall \/ SecondCall

SpecIngest == InitIngest /\ [][NextIngest]_vars

\* load_videos() and then save_new_videos() called on a file of any content:
\* absent, a stored list, a file cut short or followed by the tail of a longer
\* document, bytes that are not UTF-8, a JSON document that is no object.
LoadFiles ==
  IngestFiles
  \cup {[kind |-> "garbled", videos |-> <<>>, bytes |-> b] :
          b \in {0} \cup {JsonBytes(v) : v \in IngestStores \ {<<>>}}}
  \cup {[kind |-> k, videos |-> <<>>, bytes |-> JsonBytes(<<>>)] :
          k \in {"not_utf8", "not_object"}}

InitLoad ==
  /\ file \in LoadFiles
  /\ ingest \in {[NoIngest EXCEPT !.pc = "ready", !.input = p, !.kind = file.kind] :
                   p \in Payloads}
  /\ finalFile = [n \in Names |-> Absent]
  /\ tempFile = [n \in Names |-> Absent]
  /\ download_manager = DownloadManager_init
  /\ handler = [h \in Handlers |-> HandlerIdle]
  /\ runner = [r \in Runners |-> RunnerUnborn]
  /\ requests = 0
  /\ everTrue = {}
  /\ everSaved = {}
  /\ hseen = [h \in Handlers |-> {}]
  /\ owed = {}
  /\ successCount = [n \in Names |-> 0]

LoadCall ==
  /\ ingest.pc = "ready"
  /\ LET res == load_videos_call(file)
     IN  ingest' = [ingest EXCEPT !.pc = "loaded", !.before = res.ret,
                                  !.raised = res.raised]
  /\ file' = file
  /\ IngestUnch

SaveCall ==
  /\ ingest.pc = "loaded"
  /\ LET res == save_new_videos_call(file, ingest.input)
     IN  /\ file' = res.file
         /\ ingest' = [ingest EXCEPT !.pc = "saved", !.ret = res.ret,
                                      !.raised = res.raised,
                                      !.after = load_videos_call(res.file).ret]
  /\ IngestUnch

NextLoad == LoadCall \/ SaveCall

SpecLoad == InitLoad /\ [][NextLoad]_vars

\* One run with no ingestion beside it: the thread a handler has just started
\* (lines 504-512, so the store holds at least one pending record) is the only
\* thread.
RunFiles == {f \in IngestFiles : pending_of(load_videos(f)) # <<>>}

InitRun ==
  /\ file \in RunFiles
  /\ runner = [r \in Runners |-> IF r = 1 THEN [RunnerUnborn EXCEPT !.pc = "start"]
                                  ELSE RunnerUnborn]
  /\ finalFile = [n \in Names |-> Absent]
  /\ tempFile = [n \in Names |-> Absent]
  /\ download_manager = DownloadManager_init
  /\ handler = [h \in Handlers |-> HandlerIdle]
  /\ requests = 0
  /\ everTrue = {}
  /\ everSaved = {}
  /\ hseen = [h \in Handlers |-> {}]
  /\ owed = {}
  /\ successCount = [n \in Names |-> 0]
  /\ ingest = NoIngest

NextRun == RunnerSteps

SpecRun == InitRun /\ [][NextRun]_vars

\* The thread is scheduled as long as it has a step to take.
FairSpecRun == SpecRun /\ WF_vars(NextRun)

\* GET /status beside one run: the request thread takes the coordinator
\* snapshot (line 531), then reads the store (line 532) and answers.
StatusIdle == [pc |-> "idle", status |-> get_status(DownloadManager_init), queued |-> 0]

InitStatus ==
  /\ file \in RunFiles
  /\ runner = [r \in Runners |-> IF r = 1 THEN [RunnerUnborn EXCEPT !.pc = "start"]
                                  ELSE RunnerUnborn]
  /\ ingest = StatusIdle
  /\ finalFile = [n \in Names |-> Absent]
  /\ tempFile = [n \in Names |-> Absent]
  /\ download_manager = DownloadManager_init
  /\ handler = [h \in Handlers |-> HandlerIdle]
  /\ requests = 0
  /\ everTrue = {}
  /\ everSaved = {}
  /\ hseen = [h \in Handlers |-> {}]
  /\ owed = {}
  /\ successCount = [n \in Names |-> 0]

StatusUnch ==
  UNCHANGED <<file, finalFile, tempFile, download_manager, handler, runner, requests,
              everTrue, everSaved, hseen, owed, successCount>>

\* Line 531: status = download_manager.get_status()
StatusSnapshot ==
  /\ ingest.pc \in {"idle", "answered"}
  /\ ingest' = [pc |-> "snapshot", status |-> get_status(download_manager), queued |-> 0]
  /\ StatusUnch

\* Lines 532-543: load_videos(), pending = total_videos - downloaded, and
\* queued_for_next_batch = pending - status["pending"] while downloading, else 0.
queued_for_next_batch(status, videos) ==
  IF status.status = "downloading"
  THEN Len(pending_of(videos)) - status.pending
  ELSE 0

StatusAnswer ==
  /\ ingest.pc = "snapshot"
  /\ ingest' = [ingest EXCEPT !.pc = "answered",
                               !.queued = queued_for_next_batch(ingest.status, load_videos(file))]
  /\ StatusUnch

NextStatus ==
  \/ StatusSnapshot
  \/ StatusAnswer
  \/ RunnerSteps

SpecStatus == InitStatus /\ [][NextStatus]_vars

\* ------------------------------------------------------------------ claims
Stored == load_videos(file)

\* A thread that start_download() admitted and that has not yet finished.
Draining(r) == runner[r].admitted /\ runner[r].pc # "stopped"

NoThreadRunning == \A r \in Runners : runner[r].pc \in {"unborn", "stopped"}
NoWriteInProgress ==
  /\ \A h \in Handlers : handler[h].pc # "save_write"
  /\ \A r \in Runners : runner[r].pc # "mark_write"

\* C1: at most one runner thread is past start_download() at any time, however
\* ingestion calls and runner threads interleave.
C1_SingleFlight == Cardinality({r \in Runners : Draining(r)}) <= 1

\* C1 witness: a second thread was spawned and refused while a run is draining.
C1_Witness ==
  \E r, q \in Runners :
    /\ Draining(r) /\ runner[r].pc \in {"curl", "requests", "reload"}
    /\ runner[q].pc = "stopped" /\ ~runner[q].admitted

\* C2: a record once saved with downloaded = true is never shown by the store
\* with downloaded = false.
C2_CommittedMonotonic ==
  \A i \in 1..Len(Stored) :
    Stored[i].videoName \in everTrue => Stored[i].downloaded

\* C3: an id save_new_videos has persisted is in the store ever after (stated
\* for the states where no thread is between truncating and rewriting the file).
C3_NoRecordLost == NoWriteInProgress => everSaved \subseteq SeqNames(Stored)

\* C4: a job queued by a call that was answered "busy" is never left pending
\* with the coordinator idle and no runner thread alive or about to be started
\* (stated for the runs that ended normally, on an empty scan: a run that
\* aborted or died is not held against the claim).
C4_BusyJobDiscovered ==
  \A n \in owed :
    ~ /\ ~download_manager.is_downloading
      /\ NoThreadRunning
      /\ \A r \in Runners : runner[r].admitted => runner[r].exit = "empty"
      /\ \A h \in Handlers : handler[h].pc = "idle"
      /\ \E i \in 1..Len(Stored) : Stored[i].videoName = n /\ ~Stored[i].downloaded

\* C5: the transport pipeline succeeds at most once per job id.
C5_FetchedOnce == \A n \in Names : successCount[n] <= 1

\* C6: an admitted runner calls finish_download() exactly once on every exit
\* path, and the coordinator is never Running without an admitted thread that
\* has yet to finish.
C6_FinishOnEveryExit ==
  /\ \A r \in Runners :
       /\ runner[r].finishes <= 1
       /\ (runner[r].pc = "stopped" /\ runner[r].admitted) => runner[r].finishes = 1
       /\ Draining(r) => runner[r].finishes = 0
  /\ download_manager.is_downloading => \E r \in Runners : Draining(r)
  /\ NoThreadRunning => ~download_manager.is_downloading

\* C6 witness: a run left the loop through the exception path (KeyError on a
\* record without videoUrl), after an earlier batch of the same run succeeded,
\* and has stopped.
C6_Witness ==
  \E r \in Runners :
    /\ runner[r].pc = "stopped" /\ runner[r].exit = "error"
    /\ runner[r].total_success > 0

\* C7: the file at a final path is absent or larger than the verification
\* threshold, in every state.
C7_AtomicVisibility ==
  \A n \in Names : finalFile[n] = Absent \/ finalFile[n] > min_size_bytes

\* C7 witness: one final file is in place while a temporary file that will
\* fail verification lies beside it.
C7_Witness ==
  \E n, m \in Names :
    /\ finalFile[n] # Absent
    /\ tempFile[m] # Absent /\ tempFile[m] <= min_size_bytes
    /\ \E r \in Runners : runner[r].rc = "ok"

\* C8: every record stored with downloaded = true has a verified file at its
\* final path.
C8_CommittedHasFile ==
  \A i \in 1..Len(Stored) :
    Stored[i].downloaded => verify_temp_file_is_ok(finalFile[Stored[i].videoName])

\* C9: no two records of the store file carry the same videoName.
C9_UniqueNames ==
  \A i, j \in 1..Len(file.videos) :
    i # j => file.videos[i].videoName # file.videos[j].videoName

\* C9 witness: every call has been made, one whose list carried a duplicate id
\* (within the call or of a stored record) has added a record and saved, and
\* the store holds every name.
C9_Witness ==
  /\ \E h \in Handlers : handler[h].pc = "status" /\ handler[h].dup
                         /\ handler[h].added_count > 0
  /\ requests = MaxRequests
  /\ SeqNames(Stored) = Names

\* C10: save_new_videos returns the number of distinct non-empty ids of the
\* input that the store did not hold, appends exactly those with the url of
\* their first occurrence, adds no record without an id, and a second call with
\* the same input returns 0 and leaves the store as it was.
InputNames == {ingest.input[i].videoName : i \in 1..Len(ingest.input)} \ {NoName}
FirstIndex(n) ==
  CHOOSE i \in 1..Len(ingest.input) :
    /\ ingest.input[i].videoName = n
    /\ \A j \in 1..(i - 1) : ingest.input[j].videoName # n

C10_IngestCounts ==
  LET fresh == InputNames \ SeqNames(ingest.before)
      nb == Len(ingest.before)
  IN  /\ ingest.pc \in {"once", "twice"} =>
           /\ ingest.ret = Cardinality(fresh)
           /\ Len(ingest.after) = nb + ingest.ret
           /\ SubSeq(ingest.after, 1, nb) = ingest.before
           /\ {ingest.after[k].videoName : k \in (nb + 1)..Len(ingest.after)} = fresh
           /\ \A k \in (nb + 1)..Len(ingest.after) :
                ingest.after[k].videoUrl =
                  ingest.input[FirstIndex(ingest.after[k].videoName)].videoUrl
      /\ ingest.pc = "once" => Stored = ingest.after
      /\ ingest.pc = "twice" => ingest.again = 0 /\ Stored = ingest.after

\* C10 witness: both calls made, on a store that held records, with a list that
\* repeats a new id under two urls and holds an entry without id; one was added.
C10_Witness ==
  /\ ingest.pc = "twice"
  /\ ingest.ret = 1
  /\ \E i, j \in 1..Len(ingest.input) :
       /\ i < j /\ ingest.input[i].videoName = ingest.input[j].videoName
       /\ ingest.input[i].videoName # NoName
       /\ ingest.input[i].videoUrl # ingest.input[j].videoUrl
       /\ ingest.input[i].videoName \notin SeqNames(ingest.before)
  /\ \E i \in 1..Len(ingest.input) : ingest.input[i].videoName = NoName
  /\ ingest.before # <<>>

\* C11: at the end of a cycle that started with N pending jobs and counted S
\* successes, the coordinator holds completed_count = S and pending_count =
\* N - S, and the store shows exactly S more downloaded = true records than
\* the scan of that cycle saw.
TrueCount(videos) == Cardinality({i \in 1..Len(videos) : videos[i].downloaded})

\* The step of runner r that ends the for loop of a cycle (lines 444-453).
CycleEnds(r) ==
  /\ runner[r].idx > 0 /\ runner[r].idx = Len(runner[r].pending)
  /\ runner[r].pc \in {"requests_check", "reload", "progress"}
  /\ runner'[r].pc \in {"scan", "finally"}

CycleN(r) == Len(runner[r].pending)
CycleS(r) == runner'[r].total_success - runner[r].total_success

C11_ProgressAccounting ==
  [][\A r \in Runners :
       CycleEnds(r) =>
         /\ download_manager'.completed_count = CycleS(r)
         /\ download_manager'.pending_count = CycleN(r) - CycleS(r)
         /\ TrueCount(load_videos(file')) = runner[r].true0 + CycleS(r)]_vars

\* C12: a cycle that ends with zero successes and at least one failure is the
\* last of its run: the thread goes to the finally block instead of scanning
\* again, every job of the cycle is still in the store with downloaded = false,
\* the totals grow by no success and by one failure per job of the cycle, and
\* finish_download() then leaves the coordinator idle.  (The store is read
\* when no thread is between truncating and rewriting the file.)
WholeBatchFailed(r) ==
  /\ CycleEnds(r)
  /\ CycleS(r) = 0
  /\ runner'[r].total_fail > runner[r].total_fail

StillPending(videos, name) ==
  \E i \in 1..Len(videos) : videos[i].videoName = name /\ ~videos[i].downloaded

AbortDecision(r) ==
  WholeBatchFailed(r) =>
    /\ runner'[r].pc = "finally" /\ runner'[r].exit = "abort"
    /\ runner'[r].total_success = runner[r].total_success
    /\ runner'[r].total_fail = runner[r].total_fail + CycleN(r)

AbortFinishes(r) ==
  (runner[r].pc = "finally" /\ runner[r].exit = "abort" /\ runner'[r] # runner[r]) =>
    /\ runner'[r].pc = "stopped"
    /\ ~download_manager'.is_downloading

C12_WholeBatchFailureAborts ==
  [][\A r \in Runners :
       /\ AbortDecision(r)
       /\ AbortFinishes(r)
       /\ (WholeBatchFailed(r) /\ NoWriteInProgress) =>
            \A i \in 1..CycleN(r) :
              StillPending(load_videos(file'), runner[r].pending[i].videoName)]_vars

\* C13: verification rejects a missing temporary file and every size up to
\* 8192 bytes and accepts 8193 bytes and more; in both transports a rejected
\* temporary file is removed, nothing reaches the final path and the attempt
\* counts as failed, while an accepted file is moved to the final path.
VerifyStep(r) ==
  /\ runner[r].pc \in {"curl_check", "requests_check"}
  /\ runner[r].rc = "ok"
  /\ runner'[r] # runner[r]

AttemptFailed(r) ==
  IF runner[r].pc = "curl_check"
  THEN runner'[r].pc = "requests" /\ runner'[r].attempt = 1
  ELSE IF runner[r].attempt < max_retries
       THEN runner'[r].pc = "requests" /\ runner'[r].attempt = runner[r].attempt + 1
       ELSE runner'[r].batch_fail + runner'[r].total_fail =
              runner[r].batch_fail + runner[r].total_fail + 1

C13_VerificationBoundary ==
  [][\A r \in Runners :
       VerifyStep(r) =>
         LET name == Cur(r).videoName
             size == tempFile[name]
         IN  /\ tempFile'[name] = Absent
             /\ IF size = Absent \/ size <= 8192
                THEN finalFile' = finalFile /\ AttemptFailed(r)
                ELSE /\ size >= 8193
                     /\ finalFile' = [finalFile EXCEPT ![name] = size]
                     /\ runner'[r].pc = "reload"]_vars

\* C13 witness: a file of 8193 bytes was accepted for one job while, for
\* another, curl and the first requests attempt have failed and a file of
\* exactly 8192 bytes waits to be verified.
C13_Witness ==
  \E r \in Runners : \E n, m \in Names :
    /\ runner[r].pc = "requests_check" /\ runner[r].rc = "ok"
    /\ runner[r].attempt = max_retries
    /\ Cur(r).videoName = n /\ tempFile[n] = 8192
    /\ m # n /\ finalFile[m] = 8193

\* C14: load_videos() returns the empty list for every content of videos.json
\* that is not a decodable store (missing, cut short, trailing bytes, not
\* UTF-8, not the expected document) and raises nothing, and the next
\* save_new_videos() that has a record to add replaces the file by a readable
\* store holding it.
C14_UndecodableIsEmpty ==
  /\ ingest.pc \in {"loaded", "saved"} =>
       /\ ingest.raised = "none"
       /\ ingest.kind # "json" => ingest.before = <<>>
  /\ (ingest.pc = "saved" /\ to_add_of(ingest.before, ingest.input) # <<>>) =>
       /\ file.kind = "json"
       /\ file.videos = ingest.before \o to_add_of(ingest.before, ingest.input)

\* C15: with no ingestion beside the run, every scan after the first of a run
\* finds strictly fewer pending records than the cycle before it started with,
\* and whatever the downloads do the thread eventually calls finish_download()
\* and stops.
ScanShrinks(r) ==
  (/\ runner[r].pc = "scan" /\ runner'[r].pc # "scan"
   /\ download_manager.batch_number >= 1) =>
     Len(runner'[r].pending) < download_manager.total_count

C15_RunTerminates ==
  /\ [][\A r \in Runners : ScanShrinks(r)]_vars
  /\ <>(\E r \in Runners : runner[r].pc = "stopped" /\ runner[r].finishes = 1)

\* C15 witness: a run of two cycles, with a failed fetch in it, has ended on an
\* empty scan.
C15_Witness ==
  \E r \in Runners :
    /\ runner[r].pc = "stopped" /\ runner[r].exit = "empty"
    /\ download_manager.batch_number >= 2
    /\ runner[r].total_fail >= 1

\* C16: right after start_download() has returned True the coordinator is
\* running with start_time set and with batch_number, total_count,
\* completed_count and pending_count all 0, whatever an earlier run left.
C16_StartResetsCounters ==
  \A r \in Runners :
    runner[r].pc = "mkdir" =>
      /\ download_manager.is_downloading
      /\ download_manager.start_time = "set"
      /\ download_manager.batch_number = 0
      /\ download_manager.total_count = 0
      /\ download_manager.completed_count = 0
      /\ download_manager.pending_count = 0

\* C17: after finish_download() the coordinator is idle and batch_number,
\* total_count, completed_count, pending_count and start_time are all cleared.
C17_FinishClearsFields ==
  \A r \in Runners :
    (runner[r].pc = "stopped" /\ runner[r].finishes = 1 /\ ~download_manager.is_downloading) =>
      /\ download_manager.start_time = "None"
      /\ download_manager.batch_number = 0
      /\ download_manager.total_count = 0
      /\ download_manager.completed_count = 0
      /\ download_manager.pending_count = 0

\* C18: within one fetch download_with_curl is called exactly once and first;
\* requests is tried only after curl failed, for at most max_retries (2)
\* attempts; the fetch returns True exactly when an attempt's temporary file
\* passed verification and was moved to the final path, and returns False only
\* after curl and max_retries requests attempts have failed, without touching
\* the final path or the store (the record keeps downloaded = false).
TransportCounts(r) ==
  /\ runner[r].pc = "curl" => runner[r].curl_runs = 0 /\ runner[r].req_runs = 0
  /\ runner[r].pc = "curl_check" => runner[r].curl_runs = 1 /\ runner[r].req_runs = 0
  /\ runner[r].pc = "requests" =>
       /\ runner[r].curl_runs = 1
       /\ runner[r].attempt \in 1..2
       /\ runner[r].req_runs = runner[r].attempt - 1
  /\ runner[r].pc = "requests_check" =>
       /\ runner[r].curl_runs = 1
       /\ runner[r].attempt \in 1..2
       /\ runner[r].req_runs = runner[r].attempt

Verified(r) ==
  /\ runner[r].pc \in {"curl_check", "requests_check"}
  /\ runner[r].rc = "ok"
  /\ verify_temp_file_is_ok(tempFile[Cur(r).videoName])

FetchStep(r) ==
  /\ runner[r].pc \in {"curl", "curl_check", "requests", "requests_check"}
  /\ runner'[r] # runner[r]

FetchOutcome(r) ==
  FetchStep(r) =>
    /\ runner'[r].pc = "reload" <=> Verified(r)
    /\ runner'[r].pc = "reload" =>
         /\ finalFile'[Cur(r).videoName] = tempFile[Cur(r).videoName]
         /\ tempFile'[Cur(r).videoName] = Absent
    /\ (runner[r].pc \in {"curl", "curl_check"} /\ ~Verified(r)) =>
         runner'[r].pc \in {"curl_check", "requests"}
    /\ runner'[r].batch_fail + runner'[r].total_fail
         > runner[r].batch_fail + runner[r].total_fail =>
           /\ runner[r].pc = "requests_check"
           /\ runner[r].curl_runs = 1 /\ runner[r].req_runs = 2
           /\ finalFile' = finalFile /\ file' = file

C18_TransportFallback ==
  /\ [](\A r \in Runners : TransportCounts(r))
  /\ [][\A r \in Runners : FetchOutcome(r)]_vars

\* C18 witness: one fetch of the cycle has failed on curl and on both requests
\* attempts, and another, after curl failed, holds a verified file from its
\* second requests attempt.
C18_Witness ==
  \E r \in Runners :
    /\ runner[r].batch_fail >= 1
    /\ runner[r].pc = "requests_check" /\ runner[r].rc = "ok"
    /\ runner[r].curl_runs = 1 /\ runner[r].req_runs = 2
    /\ verify_temp_file_is_ok(tempFile[Cur(r).videoName])

\* C19: whenever get_status() answers "downloading", the counters it reports
\* satisfy pending >= 0, completed >= 0 and completed + pending = total, the
\* time between start_download() and the first start_batch() of a later run
\* included.
C19_SnapshotConsistent ==
  LET st == get_status(download_manager)
  IN  st.status = "downloading" =>
        /\ st.pending >= 0
        /\ st.completed >= 0
        /\ st.completed + st.pending = st.total

\* C20: a runner thread whose start_download() returned False changes no
\* field of the coordinator, then or later, never enters the loop and never
\* calls finish_download().
RefusedStep(r) ==
  (~runner'[r].admitted /\ runner'[r] # runner[r]) =>
     download_manager' = download_manager

RefusedStays(r) ==
  ~runner[r].admitted =>
    /\ runner[r].pc \in {"unborn", "start", "stopped"}
    /\ runner[r].finishes = 0
    /\ runner[r].total_success = 0 /\ runner[r].total_fail = 0
    /\ runner[r].pending = <<>>

C20_RefusedHasNoEffect ==
  /\ [](\A r \in Runners : RefusedStays(r))
  /\ [][\A r \in Runners : RefusedStep(r)]_vars

\* C20 witness: a thread was refused and has ended while the admitted run, in
\* its first or a later batch with one record already completed, goes on with
\* its counters intact.
C20_Witness ==
  \E r, q \in Runners :
    /\ runner[q].pc = "stopped" /\ ~runner[q].admitted /\ runner[q].finishes = 0
    /\ Draining(r) /\ runner[r].idx = 2
    /\ download_manager.is_downloading
    /\ download_manager.batch_number >= 1
    /\ download_manager.completed_count = 1
    /\ download_manager.pending_count = 1

\* C21: the queued_for_next_batch figure that GET /status answers is never
\* negative, however the call interleaves with the runner's save_videos and
\* update_progress steps.
C21_QueuedNonNegative == ingest.pc = "answered" => ingest.queued >= 0

====
